---- MODULE Spec2Model ----
(***************************************************************************)
(* Model of the npm credential-rotation Lambda handlers                    *)
(* (credentials_rotators/npm/lambda_functions/rotation_handlers.py) and of *)
(* the two CommonStack CDK stacks (integ_test_resources/ios-sdk and        *)
(* integ_test_resources/ios/sdk/integration).                              *)
(*                                                                         *)
(* A handler invocation is one action.  What the handler does, in order,   *)
(* is recorded in a trace of steps (print, dictionary lookup, constructor  *)
(* call, rotate call); the outcome is a normal return or a raised          *)
(* exception.  The rotator class and the CDK constructs are environment:   *)
(* their calls may return or raise, chosen nondeterministically.           *)
(***************************************************************************)
EXTENDS Integers, Sequences, FiniteSets

VARIABLES history, last, stack, setLog, got

vars == <<history, last, stack, setLog, got>>

\* ------------------------------------------------------------------------
\* Bounds
\* ------------------------------------------------------------------------
MaxInvocations == 2

MaxSets == 2

\* ------------------------------------------------------------------------
\* Values of the rotation event
\* ------------------------------------------------------------------------
RequiredKeys == <<"SecretId", "ClientRequestToken", "Step">>

KeySet == {RequiredKeys[i] : i \in 1..Len(RequiredKeys)}

ValidSteps == {"createSecret", "setSecret", "testSecret", "finishSecret"}

\* the step labels the model feeds in: the first and the last step of the
\* protocol, and one label outside the enumeration
Steps == {"createSecret", "finishSecret", "deleteSecret"}

SecretIds == {"arn:secret:A", "arn:secret:B"}

Tokens == {"token-1", "token-2"}

Contexts == {"ctx-1", "ctx-2"}

ValuesOf(k) ==
  IF k = "SecretId" THEN SecretIds
  ELSE IF k = "ClientRequestToken" THEN Tokens
  ELSE Steps

\* every dictionary over a subset of the three keys, the empty one included
Events ==
  UNION {[ks -> SecretIds \cup Tokens \cup Steps] : ks \in SUBSET KeySet}

WellTypedEvents == {e \in Events : \A k \in DOMAIN e : e[k] \in ValuesOf(k)}

IsComplete(event) == KeySet \subseteq DOMAIN event

TripleOf(event) ==
  IF IsComplete(event)
  THEN <<<<event["SecretId"], event["ClientRequestToken"], event["Step"]>>>>
  ELSE <<>>

\* ------------------------------------------------------------------------
\* Exceptions and outcomes
\* ------------------------------------------------------------------------
NoExc == [type |-> "None", arg |-> ""]

KeyError(k) == [type |-> "KeyError", arg |-> k]

RotatorFailures ==
  {[type |-> "ResourceNotFoundException", arg |-> "rotator"],
   [type |-> "ValueError", arg |-> "rotator"]}

\* what a call into the rotator can do: return (NoExc) or raise one failure
RotatorResults == {NoExc} \cup RotatorFailures

\* the constructor is reached only with a complete event, rotate only on a
\* constructed object; a call that is not reached has nothing to choose
CtorResults(event) == IF KeySet \subseteq DOMAIN event THEN RotatorResults ELSE {NoExc}

RotateResults(ctor) == IF ctor = NoExc THEN RotatorResults ELSE {NoExc}

Return(tr, ev) ==
  [trace |-> tr, outcome |-> [kind |-> "return", value |-> "None", exc |-> NoExc], event |-> ev]

Raise(e, tr, ev) ==
  [trace |-> tr, outcome |-> [kind |-> "raise", value |-> "None", exc |-> e], event |-> ev]

\* ------------------------------------------------------------------------
\* Steps a handler can take
\* ------------------------------------------------------------------------
StdoutWrite(event) == [op |-> "print", arg |-> event]

GetItem(k) == [op |-> "getitem", key |-> k]

UserLoginPasswordRotator(arn, token, step) ==
  [class |-> "UserLoginPasswordRotator", args |-> <<arn, token, step>>]

New(arn, token, step, res) ==
  [op |-> "new", args |-> <<arn, token, step>>, raised |-> res]

Rotate(obj, res) == [op |-> "rotate", self |-> obj, raised |-> res]

\* ------------------------------------------------------------------------
\* Faulty variants of the handlers
\* ------------------------------------------------------------------------
\* the commented-out body of rotate_access_keys, running
rotate_access_keys_uncommented(event, context) ==
  LET t0 == <<StdoutWrite(event)>>
      t1 == Append(t0, GetItem("SecretId"))
      t2 == Append(t1, GetItem("ClientRequestToken"))
      t3 == Append(t2, GetItem("Step"))
  IN IF "SecretId" \notin DOMAIN event THEN Raise(KeyError("SecretId"), t1, event)
     ELSE IF "ClientRequestToken" \notin DOMAIN event
          THEN Raise(KeyError("ClientRequestToken"), t2, event)
     ELSE IF "Step" \notin DOMAIN event THEN Raise(KeyError("Step"), t3, event)
     ELSE Return(t3, event)

\* token and arn passed in the wrong order
rotate_login_password_swapped(event, context, ctor, rot) ==
  LET t0 == <<StdoutWrite(event)>>
      t1 == Append(t0, GetItem("SecretId"))
      t2 == Append(t1, GetItem("ClientRequestToken"))
      t3 == Append(t2, GetItem("Step"))
  IN IF "SecretId" \notin DOMAIN event THEN Raise(KeyError("SecretId"), t1, event)
     ELSE IF "ClientRequestToken" \notin DOMAIN event
          THEN Raise(KeyError("ClientRequestToken"), t2, event)
     ELSE IF "Step" \notin DOMAIN event THEN Raise(KeyError("Step"), t3, event)
     ELSE LET arn == event["SecretId"]
              token == event["ClientRequestToken"]
              step == event["Step"]
              t4 == Append(t3, New(token, arn, step, ctor))
              user_login_password_rotator == UserLoginPasswordRotator(token, arn, step)
              t5 == Append(t4, Rotate(user_login_password_rotator, rot))
          IN IF ctor # NoExc THEN Raise(ctor, t4, event)
             ELSE IF rot # NoExc THEN Raise(rot, t5, event)
             ELSE Return(t5, event)

\* event.get(key) in place of event[key]: a missing key reads as None
DictGet(event, k) == IF k \in DOMAIN event THEN event[k] ELSE "None"

rotate_login_password_get(event, context, ctor, rot) ==
  LET t0 == <<StdoutWrite(event)>>
      t3 == t0 \o <<GetItem("SecretId"), GetItem("ClientRequestToken"), GetItem("Step")>>
      arn == DictGet(event, "SecretId")
      token == DictGet(event, "ClientRequestToken")
      step == DictGet(event, "Step")
      t4 == Append(t3, New(arn, token, step, ctor))
      t5 == Append(t4, Rotate(UserLoginPasswordRotator(arn, token, step), rot))
  IN IF ctor # NoExc THEN Raise(ctor, t4, event)
     ELSE IF rot # NoExc THEN Raise(rot, t5, event)
     ELSE Return(t5, event)

\* a try/except around the delegation that logs and returns
rotate_login_password_swallow(event, context, ctor, rot) ==
  LET t0 == <<StdoutWrite(event)>>
      t1 == Append(t0, GetItem("SecretId"))
      t2 == Append(t1, GetItem("ClientRequestToken"))
      t3 == Append(t2, GetItem("Step"))
  IN IF "SecretId" \notin DOMAIN event THEN Raise(KeyError("SecretId"), t1, event)
     ELSE IF "ClientRequestToken" \notin DOMAIN event
          THEN Raise(KeyError("ClientRequestToken"), t2, event)
     ELSE IF "Step" \notin DOMAIN event THEN Raise(KeyError("Step"), t3, event)
     ELSE LET arn == event["SecretId"]
              token == event["ClientRequestToken"]
              step == event["Step"]
              t4 == Append(t3, New(arn, token, step, ctor))
              t5 == Append(t4, Rotate(UserLoginPasswordRotator(arn, token, step), rot))
          IN IF ctor # NoExc THEN Return(t4, event)
             ELSE Return(t5, event)

\* a delegation already made for the same (arn, token, step) is skipped
rotate_login_password_dedup(event, context, ctor, rot) ==
  LET t0 == <<StdoutWrite(event)>>
      t1 == Append(t0, GetItem("SecretId"))
      t2 == Append(t1, GetItem("ClientRequestToken"))
      t3 == Append(t2, GetItem("Step"))
  IN IF "SecretId" \notin DOMAIN event THEN Raise(KeyError("SecretId"), t1, event)
     ELSE IF "ClientRequestToken" \notin DOMAIN event
          THEN Raise(KeyError("ClientRequestToken"), t2, event)
     ELSE IF "Step" \notin DOMAIN event THEN Raise(KeyError("Step"), t3, event)
     ELSE LET arn == event["SecretId"]
              token == event["ClientRequestToken"]
              step == event["Step"]
              t4 == Append(t3, New(arn, token, step, ctor))
              t5 == Append(t4, Rotate(UserLoginPasswordRotator(arn, token, step), rot))
          IN IF \E i \in 1..Len(history) : history[i].delegated = <<<<arn, token, step>>>>
             THEN Return(t3, event)
             ELSE IF ctor # NoExc THEN Raise(ctor, t4, event)
             ELSE IF rot # NoExc THEN Raise(rot, t5, event)
             ELSE Return(t5, event)

\* the step label is checked against the enumeration before delegating
rotate_login_password_validating(event, context, ctor, rot) ==
  LET t0 == <<StdoutWrite(event)>>
      t1 == Append(t0, GetItem("SecretId"))
      t2 == Append(t1, GetItem("ClientRequestToken"))
      t3 == Append(t2, GetItem("Step"))
  IN IF "SecretId" \notin DOMAIN event THEN Raise(KeyError("SecretId"), t1, event)
     ELSE IF "ClientRequestToken" \notin DOMAIN event
          THEN Raise(KeyError("ClientRequestToken"), t2, event)
     ELSE IF "Step" \notin DOMAIN event THEN Raise(KeyError("Step"), t3, event)
     ELSE LET arn == event["SecretId"]
              token == event["ClientRequestToken"]
              step == event["Step"]
              t4 == Append(t3, New(arn, token, step, ctor))
              t5 == Append(t4, Rotate(UserLoginPasswordRotator(arn, token, step), rot))
          IN IF step \notin ValidSteps
             THEN Raise([type |-> "ValueError", arg |-> "step"], t3, event)
             ELSE IF ctor # NoExc THEN Raise(ctor, t4, event)
             ELSE IF rot # NoExc THEN Raise(rot, t5, event)
             ELSE Return(t5, event)

\* the lookups made in the opposite order
rotate_login_password_reordered(event, context, ctor, rot) ==
  LET t0 == <<StdoutWrite(event)>>
      t1 == Append(t0, GetItem("Step"))
      t2 == Append(t1, GetItem("ClientRequestToken"))
      t3 == Append(t2, GetItem("SecretId"))
  IN IF "Step" \notin DOMAIN event THEN Raise(KeyError("Step"), t1, event)
     ELSE IF "ClientRequestToken" \notin DOMAIN event
          THEN Raise(KeyError("ClientRequestToken"), t2, event)
     ELSE IF "SecretId" \notin DOMAIN event THEN Raise(KeyError("SecretId"), t3, event)
     ELSE LET arn == event["SecretId"]
              token == event["ClientRequestToken"]
              step == event["Step"]
              t4 == Append(t3, New(arn, token, step, ctor))
              t5 == Append(t4, Rotate(UserLoginPasswordRotator(arn, token, step), rot))
          IN IF ctor # NoExc THEN Raise(ctor, t4, event)
             ELSE IF rot # NoExc THEN Raise(rot, t5, event)
             ELSE Return(t5, event)

\* ------------------------------------------------------------------------
\* The handlers
\* ------------------------------------------------------------------------
\* the body is a docstring and comments only: nothing runs, None is returned
rotate_access_keys(event, context) ==
  Return(<<>>, event)

\* ctor and rot are what the constructor call and the rotate call do
rotate_login_password(event, context, ctor, rot) ==
  LET t0 == <<StdoutWrite(event)>>
      t1 == Append(t0, GetItem("SecretId"))
      t2 == Append(t1, GetItem("ClientRequestToken"))
      t3 == Append(t2, GetItem("Step"))
  IN IF "SecretId" \notin DOMAIN event THEN Raise(KeyError("SecretId"), t1, event)
     ELSE IF "ClientRequestToken" \notin DOMAIN event
          THEN Raise(KeyError("ClientRequestToken"), t2, event)
     ELSE IF "Step" \notin DOMAIN event THEN Raise(KeyError("Step"), t3, event)
     ELSE LET arn == event["SecretId"]
              token == event["ClientRequestToken"]
              step == event["Step"]
              t4 == Append(t3, New(arn, token, step, ctor))
              user_login_password_rotator == UserLoginPasswordRotator(arn, token, step)
              t5 == Append(t4, Rotate(user_login_password_rotator, rot))
          IN IF ctor # NoExc THEN Raise(ctor, t4, event)
             ELSE IF rot # NoExc THEN Raise(rot, t5, event)
             ELSE Return(t5, event)

\* ------------------------------------------------------------------------
\* Reading a trace
\* ------------------------------------------------------------------------
IsNew(s) == s.op = "new"

IsRotate(s) == s.op = "rotate"

IsPrint(s) == s.op = "print"

IsGetItem(s) == s.op = "getitem"

NewCalls(tr) == SelectSeq(tr, IsNew)

RotateCalls(tr) == SelectSeq(tr, IsRotate)

Prints(tr) == SelectSeq(tr, IsPrint)

Lookups(tr) == SelectSeq(tr, IsGetItem)

ArgsOf(tr) == [i \in 1..Len(NewCalls(tr)) |-> NewCalls(tr)[i].args]

\* what is remembered of an invocation once the next one has started
Summary(h, event, res) ==
  [handler |-> h,
   key |-> TripleOf(event),
   delegated |-> ArgsOf(res.trace),
   rotated |-> Len(RotateCalls(res.trace)),
   failed |-> res.outcome.kind = "raise"]

Invocation(h, event, context, res) ==
  [handler |-> h, event |-> event, context |-> context,
   trace |-> res.trace, outcome |-> res.outcome, event_after |-> res.event]

\* ------------------------------------------------------------------------
\* The CommonStack stacks
\* ------------------------------------------------------------------------
Scopes == {"app"}

StackIds == {"common", "ios-common"}

Accounts == {"111111111111", "222222222222"}

NoPrincipal == [type |-> "None", account_id |-> ""]

NoArn == [attr |-> "None", path |-> <<>>]

AccountPrincipal(account) == [type |-> "AccountPrincipal", account_id |-> account]

\* aws_iam.Role(self, id, assumed_by=...)
Role(self, id, assumed_by) ==
  [kind |-> "Role", stack |-> self.id, id |-> id, assumed_by |-> assumed_by, value |-> NoArn]

\* the ARN attribute of a role: a reference to that role, not the role
role_arn(role) == [attr |-> "Arn", path |-> <<role.stack, role.id>>]

\* core.CfnOutput(self, id, value=...)
CfnOutput(self, id, value) ==
  [kind |-> "CfnOutput", stack |-> self.id, id |-> id, assumed_by |-> NoPrincipal, value |-> value]

\* parameter_store.string_parameter(self, name, value)
string_parameter(self, name, value) ==
  [kind |-> "StringParameter", stack |-> self.id, id |-> name, assumed_by |-> NoPrincipal,
   value |-> value]

\* core.Stack.__init__(scope, id, **kwargs): an empty stack in an account
core_Stack(class, scope, id, account) ==
  [class |-> class, scope |-> scope, id |-> id, account |-> account, stackId |-> <<>>,
   children |-> <<>>, _circleci_execution_role |-> <<>>]

AddChild(self, c) == [self EXCEPT !.children = Append(@, c)]

NoneValue ==
  [kind |-> "None", stack |-> "", id |-> "", assumed_by |-> NoPrincipal, value |-> NoArn]

\* a role of some other stack
ForeignRole ==
  [kind |-> "Role", stack |-> "other-stack", id |-> "other_role",
   assumed_by |-> AccountPrincipal("999999999999"), value |-> NoArn]

\* the output publishes the ARN of a role other than the one created
CommonStack_ios_sdk_wrong_arn(scope, id, account) ==
  LET self == core_Stack("ios-sdk", scope, id, account)
      circleci_execution_role ==
        Role(self, "circleci_execution_role", AccountPrincipal(self.account))
      s1 == AddChild(self, circleci_execution_role)
      s2 == AddChild(s1, CfnOutput(self, "circleciexecutionrolearn", role_arn(ForeignRole)))
  IN [s2 EXCEPT !._circleci_execution_role = <<circleci_execution_role>>]

\* ios-sdk/.../common_stack.py, CommonStack.__init__
CommonStack_ios_sdk(scope, id, account) ==
  LET self == core_Stack("ios-sdk", scope, id, account)
      circleci_execution_role ==
        Role(self, "circleci_execution_role", AccountPrincipal(self.account))
      s1 == AddChild(self, circleci_execution_role)
      s2 == AddChild(s1, CfnOutput(self, "circleciexecutionrolearn",
                                   role_arn(circleci_execution_role)))
  IN [s2 EXCEPT !._circleci_execution_role = <<circleci_execution_role>>]

\* ios/sdk/integration/.../common_stack.py, CommonStack.__init__
CommonStack_ios(scope, id, account) ==
  LET self0 == core_Stack("ios", scope, id, account)
      self == [self0 EXCEPT !.stackId = <<id>>]
      circleci_execution_role ==
        Role(self, "circleci_execution_role", AccountPrincipal(self.account))
      s1 == AddChild(self, circleci_execution_role)
      s2 == AddChild(s1, string_parameter(self, "circleci_execution_role",
                                          role_arn(circleci_execution_role)))
  IN [s2 EXCEPT !._circleci_execution_role = <<circleci_execution_role>>]

\* the property getters
circleci_execution_role_ios_sdk(self) == self._circleci_execution_role[1]

circleci_execution_role_ios(self) == self._circleci_execution_role[1]

\* a setter that keeps the first value
circleci_execution_role_ios_sdk_set_ignored(self, value) == self

\* the property setters
circleci_execution_role_ios_sdk_set(self, value) ==
  [self EXCEPT !._circleci_execution_role = <<value>>]

circleci_execution_role_ios_set(self, value) ==
  [self EXCEPT !._circleci_execution_role = <<value>>]

\* ------------------------------------------------------------------------
\* Initial state: the module is loaded, nothing has been invoked or built
\* ------------------------------------------------------------------------
Init ==
  /\ history = <<>>
  /\ last = <<>>
  /\ stack = <<>>
  /\ setLog = <<>>
  /\ got = <<>>

\* ------------------------------------------------------------------------
\* The invoking service calls a handler
\* ------------------------------------------------------------------------
InvokeRotateAccessKeys ==
  /\ Len(history) < MaxInvocations
  /\ \E event \in WellTypedEvents, context \in Contexts :
       LET res == rotate_access_keys(event, context)
       IN /\ last' = <<Invocation("rotate_access_keys", event, context, res)>>
          /\ history' = Append(history, Summary("rotate_access_keys", event, res))
  /\ UNCHANGED <<stack, setLog, got>>

InvokeRotateLoginPassword ==
  /\ Len(history) < MaxInvocations
  /\ \E event \in WellTypedEvents, context \in Contexts :
     \E ctor \in CtorResults(event) :
     \E rot \in RotateResults(ctor) :
       LET res == rotate_login_password(event, context, ctor, rot)
       IN /\ last' = <<Invocation("rotate_login_password", event, context, res)>>
          /\ history' = Append(history, Summary("rotate_login_password", event, res))
  /\ UNCHANGED <<stack, setLog, got>>

Next ==
  \/ InvokeRotateAccessKeys
  \/ InvokeRotateLoginPassword

Spec == Init /\ [][Next]_vars

\* ------------------------------------------------------------------------
\* The deployment tool builds a stack and reads or replaces its role
\* ------------------------------------------------------------------------
ConstructCommonStackIosSdk ==
  /\ stack = <<>>
  /\ \E scope \in Scopes, id \in StackIds, account \in Accounts :
       stack' = <<CommonStack_ios_sdk(scope, id, account)>>
  /\ UNCHANGED <<history, last, setLog, got>>

ConstructCommonStackIos ==
  /\ stack = <<>>
  /\ \E scope \in Scopes, id \in StackIds, account \in Accounts :
       stack' = <<CommonStack_ios(scope, id, account)>>
  /\ UNCHANGED <<history, last, setLog, got>>

\* the role the constructor created, as it stands among the stack's children
CreatedRole(self) == self.children[1]

SetterValues(self) == {CreatedRole(self), ForeignRole, NoneValue}

GetRole ==
  /\ stack # <<>>
  /\ got' = <<[value |-> IF stack[1].class = "ios-sdk"
                         THEN circleci_execution_role_ios_sdk(stack[1])
                         ELSE circleci_execution_role_ios(stack[1]),
               at |-> Len(setLog)]>>
  /\ UNCHANGED <<history, last, stack, setLog>>

SetRole ==
  /\ stack # <<>>
  /\ Len(setLog) < MaxSets
  /\ \E value \in SetterValues(stack[1]) :
       /\ stack' = <<IF stack[1].class = "ios-sdk"
                     THEN circleci_execution_role_ios_sdk_set(stack[1], value)
                     ELSE circleci_execution_role_ios_set(stack[1], value)>>
       /\ setLog' = Append(setLog, value)
  /\ UNCHANGED <<history, last, got>>

StackNext ==
  \/ ConstructCommonStackIosSdk
  \/ ConstructCommonStackIos
  \/ GetRole
  \/ SetRole

StackSpec == Init /\ [][StackNext]_vars

\* ------------------------------------------------------------------------
\* Properties of the handlers
\* ------------------------------------------------------------------------
IsLogin(inv) == inv.handler = "rotate_login_password"

IsAccessKeys(inv) == inv.handler = "rotate_access_keys"

EventArgs(event) == <<event["SecretId"], event["ClientRequestToken"], event["Step"]>>

\* every rotate call comes after a constructor call
RotateAfterNew(tr) ==
  \A j \in 1..Len(tr) :
    IsRotate(tr[j]) => \E i \in 1..(j - 1) : IsNew(tr[i])

\* one constructor call, with the event's three values in order
OneConstruction(inv) ==
  /\ Len(NewCalls(inv.trace)) = 1
  /\ NewCalls(inv.trace)[1].args = EventArgs(inv.event)

\* one rotate call, on the object the constructor made from the event
OneRotateOnIt(inv) ==
  /\ Len(RotateCalls(inv.trace)) = 1
  /\ RotateCalls(inv.trace)[1].self = UserLoginPasswordRotator(inv.event["SecretId"],
                                         inv.event["ClientRequestToken"], inv.event["Step"])
  /\ RotateAfterNew(inv.trace)

\* C1 as stated: with a complete event, one invocation of
\* rotate_login_password constructs exactly one rotator from (SecretId,
\* ClientRequestToken, Step) and calls rotate() on it exactly once, after the
\* construction.
C1_AlwaysRotatesOnce ==
  \A n \in 1..Len(last) :
    (IsLogin(last[n]) /\ IsComplete(last[n].event)) =>
      /\ OneConstruction(last[n])
      /\ OneRotateOnIt(last[n])

\* C1 amended: with a complete event, one invocation of rotate_login_password
\* calls the constructor exactly once with (SecretId, ClientRequestToken,
\* Step) unchanged; when the constructor returns, rotate() is called exactly
\* once on that object, after the construction; when the constructor raises,
\* rotate() is not called.
C1_ConstructsThenRotates ==
  \A n \in 1..Len(last) :
    (IsLogin(last[n]) /\ IsComplete(last[n].event)) =>
      /\ OneConstruction(last[n])
      /\ NewCalls(last[n].trace)[1].raised = NoExc => OneRotateOnIt(last[n])
      /\ NewCalls(last[n].trace)[1].raised # NoExc => Len(RotateCalls(last[n].trace)) = 0

C1_Witness ==
  /\ Len(last) = 1
  /\ IsLogin(last[1])
  /\ IsComplete(last[1].event)
  /\ Len(last[1].trace) = 6
  /\ IsNew(last[1].trace[5])
  /\ IsRotate(last[1].trace[6])
  /\ last[1].outcome.kind = "return"

\* C2: with an event lacking any of the three keys, rotate_login_password
\* fails with a KeyError, constructs no rotator and never calls rotate().
C2_MissingKeyFailsBeforeConstruction ==
  \A n \in 1..Len(last) :
    (IsLogin(last[n]) /\ ~IsComplete(last[n].event)) =>
      /\ last[n].outcome.kind = "raise"
      /\ last[n].outcome.exc.type = "KeyError"
      /\ Len(NewCalls(last[n].trace)) = 0
      /\ Len(RotateCalls(last[n].trace)) = 0

C2_Witness ==
  /\ Len(last) = 1
  /\ IsLogin(last[1])
  /\ DOMAIN last[1].event = {"SecretId", "ClientRequestToken"}
  /\ last[1].outcome.kind = "raise"

\* C3 as stated: both handlers, rotate_access_keys and rotate_login_password,
\* fail with a KeyError when the event lacks a required key.
C3_BothHandlersFailOnMissingKey ==
  \A n \in 1..Len(last) :
    ~IsComplete(last[n].event) =>
      /\ last[n].outcome.kind = "raise"
      /\ last[n].outcome.exc.type = "KeyError"

C5_RotatorFailurePropagates ==
  \A n \in 1..Len(last) :
    IsLogin(last[n]) =>
      /\ \A i \in 1..Len(last[n].trace) :
           ((IsNew(last[n].trace[i]) \/ IsRotate(last[n].trace[i]))
              /\ last[n].trace[i].raised # NoExc) =>
             /\ last[n].outcome.kind = "raise"
             /\ last[n].outcome.exc = last[n].trace[i].raised
             /\ i = Len(last[n].trace)
      /\ Len(NewCalls(last[n].trace)) <= 1
      /\ Len(RotateCalls(last[n].trace)) <= 1

C5_Witness ==
  /\ Len(last) = 1
  /\ IsLogin(last[1])
  /\ Len(last[1].trace) = 5
  /\ IsNew(last[1].trace[5])
  /\ last[1].trace[5].raised.type = "ValueError"
  /\ last[1].outcome.kind = "raise"

\* C7: rotate_login_password keeps no state and orders no steps: in any
\* sequence of invocations, each one with a complete event makes exactly one
\* delegation, carrying its own (SecretId, ClientRequestToken, Step), whatever
\* was invoked before and however it ended.
C7_EveryInvocationDelegatesItsOwnEvent ==
  \A i \in 1..Len(history) :
    (history[i].handler = "rotate_login_password" /\ history[i].key # <<>>) =>
      /\ history[i].delegated = history[i].key
      /\ history[i].rotated <= 1
      /\ history[i].rotated = 0 => history[i].failed

\* the same secret, token and step twice, the first attempt having failed, and
\* the last step of the protocol without its first ever having been seen
C7_Witness ==
  /\ Len(history) = 2
  /\ history[1].handler = "rotate_login_password"
  /\ history[2].handler = "rotate_login_password"
  /\ history[1].key # <<>>
  /\ history[1].key = history[2].key
  /\ history[1].key[1][3] = "finishSecret"
  /\ history[1].failed
  /\ history[2].delegated = history[2].key

\* what the constructor and rotate did in an invocation, read off its trace
CtorResultIn(tr) == IF Len(NewCalls(tr)) = 0 THEN NoExc ELSE NewCalls(tr)[1].raised

RotateResultIn(tr) == IF Len(RotateCalls(tr)) = 0 THEN NoExc ELSE RotateCalls(tr)[1].raised

\* C8: rotate_login_password does not validate Step: a value outside
\* {createSecret, setSecret, testSecret, finishSecret} is forwarded unchanged
\* as the third constructor argument, and the invocation ends as it would
\* with a valid step.
C8_StepNotValidated ==
  \A n \in 1..Len(last) :
    (IsLogin(last[n]) /\ IsComplete(last[n].event) /\ last[n].event["Step"] \notin ValidSteps) =>
      /\ Len(NewCalls(last[n].trace)) = 1
      /\ NewCalls(last[n].trace)[1].args[3] = last[n].event["Step"]
      /\ \A s \in ValidSteps :
           LET other == rotate_login_password([last[n].event EXCEPT !["Step"] = s],
                           last[n].context, CtorResultIn(last[n].trace),
                           RotateResultIn(last[n].trace))
           IN /\ other.outcome = last[n].outcome
              /\ Len(other.trace) = Len(last[n].trace)

C8_Witness ==
  /\ Len(last) = 1
  /\ IsLogin(last[1])
  /\ IsComplete(last[1].event)
  /\ last[1].event["Step"] = "deleteSecret"
  /\ Len(NewCalls(last[1].trace)) = 1
  /\ NewCalls(last[1].trace)[1].args[3] = "deleteSecret"

FirstMissing(event) ==
  CHOOSE i \in 1..Len(RequiredKeys) :
    /\ RequiredKeys[i] \notin DOMAIN event
    /\ \A j \in 1..(i - 1) : RequiredKeys[j] \in DOMAIN event

\* C9: rotate_login_password prints the whole event first, then looks up
\* SecretId, ClientRequestToken, Step in that order and stops at the first
\* absent key, which the KeyError names; the event is printed even when a key
\* is missing.
C9_PrintThenLookupsInOrder ==
  \A n \in 1..Len(last) :
    IsLogin(last[n]) =>
      /\ Len(last[n].trace) >= 1
      /\ IsPrint(last[n].trace[1])
      /\ last[n].trace[1].arg = last[n].event
      /\ Len(Prints(last[n].trace)) = 1
      /\ ~IsComplete(last[n].event) =>
           /\ last[n].outcome.kind = "raise"
           /\ last[n].outcome.exc = KeyError(RequiredKeys[FirstMissing(last[n].event)])
           /\ Len(last[n].trace) = 1 + FirstMissing(last[n].event)
           /\ \A i \in 1..FirstMissing(last[n].event) :
                /\ IsGetItem(last[n].trace[1 + i])
                /\ last[n].trace[1 + i].key = RequiredKeys[i]
      /\ IsComplete(last[n].event) =>
           \A i \in 1..Len(RequiredKeys) :
             /\ IsGetItem(last[n].trace[1 + i])
             /\ last[n].trace[1 + i].key = RequiredKeys[i]

\* two keys missing: the failure names the first of them
C9_Witness ==
  /\ Len(last) = 1
  /\ IsLogin(last[1])
  /\ DOMAIN last[1].event = {"SecretId"}
  /\ last[1].outcome.exc = KeyError("ClientRequestToken")
  /\ IsPrint(last[1].trace[1])

\* ------------------------------------------------------------------------
\* Properties of the stacks
\* ------------------------------------------------------------------------
IsRoleC(c) == c.kind = "Role"

IsOutputC(c) == c.kind = "CfnOutput"

IsParameterC(c) == c.kind = "StringParameter"

RolesOf(self) == SelectSeq(self.children, IsRoleC)

OutputsOf(self) == SelectSeq(self.children, IsOutputC)

ParametersOf(self) == SelectSeq(self.children, IsParameterC)

\* C6: constructing either CommonStack provisions exactly one role,
\* circleci_execution_role, assumable by the stack's own account, and
\* publishes the ARN of that role exactly once: as output
\* circleciexecutionrolearn in the ios-sdk stack, as parameter-store entry
\* circleci_execution_role in the ios/sdk/integration stack.
C6_OneRoleArnPublishedOnce ==
  \A n \in 1..Len(stack) :
    /\ Len(RolesOf(stack[n])) = 1
    /\ RolesOf(stack[n])[1].id = "circleci_execution_role"
    /\ RolesOf(stack[n])[1].stack = stack[n].id
    /\ RolesOf(stack[n])[1].assumed_by = AccountPrincipal(stack[n].account)
    /\ Len(OutputsOf(stack[n])) + Len(ParametersOf(stack[n])) = 1
    /\ Len(stack[n].children) = 2
    /\ stack[n].class = "ios-sdk" =>
         /\ Len(OutputsOf(stack[n])) = 1
         /\ OutputsOf(stack[n])[1].id = "circleciexecutionrolearn"
         /\ OutputsOf(stack[n])[1].value = role_arn(RolesOf(stack[n])[1])
    /\ stack[n].class = "ios" =>
         /\ Len(ParametersOf(stack[n])) = 1
         /\ ParametersOf(stack[n])[1].id = "circleci_execution_role"
         /\ ParametersOf(stack[n])[1].value = role_arn(RolesOf(stack[n])[1])

C6_Witness ==
  /\ Len(stack) = 1
  /\ stack[1].class = "ios-sdk"
  /\ stack[1].account = "222222222222"
  /\ Len(OutputsOf(stack[1])) = 1
  /\ setLog = <<>>

\* the stack as the constructor leaves it, for the arguments it was built with
AsConstructed(self) ==
  IF self.class = "ios-sdk"
  THEN CommonStack_ios_sdk(self.scope, self.id, self.account)
  ELSE CommonStack_ios(self.scope, self.id, self.account)

\* the value the property holds after the first k setter calls
ExpectedRole(self, k) == IF k = 0 THEN CreatedRole(AsConstructed(self)) ELSE setLog[k]

\* C10: the circleci_execution_role property returns the created role until
\* the setter is called and the last value set after that; a setter call
\* changes the stored reference only: the provisioned role and the published
\* ARN stay those of the role the constructor created.
C10_SetGetRoundTrip ==
  \A n \in 1..Len(stack) :
    /\ stack[n]._circleci_execution_role = <<ExpectedRole(stack[n], Len(setLog))>>
    /\ \A g \in 1..Len(got) : got[g].value = ExpectedRole(stack[n], got[g].at)
    /\ [stack[n] EXCEPT !._circleci_execution_role = <<CreatedRole(AsConstructed(stack[n]))>>]
         = AsConstructed(stack[n])

\* set twice, read after the second call: the value read is the second one,
\* not the created role
C10_Witness ==
  /\ Len(stack) = 1
  /\ Len(setLog) = 2
  /\ setLog[1] = ForeignRole
  /\ setLog[2] = NoneValue
  /\ Len(got) = 1
  /\ got[1].at = 2
  /\ got[1].value = NoneValue
  /\ RolesOf(stack[1])[1].id = "circleci_execution_role"

====
